---------------------------- MODULE Spec2Model ----------------------------
(***************************************************************************)
(* Reverse-diffusion sampling engine of task/diffusion.py                  *)
(* (SpecRollDiffusion / LatentRollDiffusion): noise schedule, forward      *)
(* process, reverse-step strategies, sampling loops, training step.        *)
(*                                                                         *)
(* Tensor elements and schedule coefficients are fixed-point numbers with  *)
(* Unit = 1.0 (resolution 1e-4, the clip floor of the cosine schedule);    *)
(* every arithmetic operation rounds towards zero, as a float operation    *)
(* rounds to its grid.  A tensor (B, 1, T, F) is a sequence of B batch     *)
(* elements of one cell each: all tensor operations of the source are      *)
(* element-wise.                                                           *)
(***************************************************************************)
EXTENDS Integers, Sequences, FiniteSets, TLC

(***************************************************************************)
(* Fixed-point arithmetic                                                  *)
(***************************************************************************)
Unit == 100 * 100

Abs(a) == IF a < 0 THEN -a ELSE a

Sgn(a) == IF a < 0 THEN -1 ELSE 1

Min2(a, b) == IF a < b THEN a ELSE b

Max2(a, b) == IF a > b THEN a ELSE b

\* a * b of two fixed-point numbers (the high and the low part of |a| are
\* multiplied apart, so that no intermediate exceeds the integer range)
Mul(a, b) ==
    LET aa == Abs(a)
        bb == Abs(b)
        ah == aa \div Unit
        al == aa % Unit
        bh == bb \div Unit
        bl == bb % Unit
    IN  Sgn(a) * Sgn(b)
          * (ah * bh * Unit + ah * bl + al * bh + (al * bl) \div Unit)

\* a / b of two fixed-point numbers, b # 0
Div(a, b) ==
    LET aa == Abs(a)
        bb == Abs(b)
        r1 == (aa % bb) * 100
        r2 == (r1 % bb) * 100
    IN  Sgn(a) * Sgn(b)
          * ((aa \div bb) * Unit + (r1 \div bb) * 100 + r2 \div bb)

RECURSIVE ISqrtBetween(_, _, _)
\* the integer r in lo..hi with r*r <= n < (r+1)*(r+1), by bisection
ISqrtBetween(n, lo, hi) ==
    IF lo >= hi THEN lo
    ELSE LET mid == (lo + hi + 1) \div 2
         IN  IF mid * mid <= n THEN ISqrtBetween(n, mid, hi)
             ELSE ISqrtBetween(n, lo, mid - 1)

\* the square root of a negative number is not a number
ISqrt(n) == IF n >= 0 THEN ISqrtBetween(n, 0, 46340) ELSE "nan"

\* torch.sqrt of a fixed-point number (above 20.0 the argument is rooted
\* before it is scaled, to stay in the integer range)
Sqrt(a) == IF a <= 20 * Unit THEN ISqrt(a * Unit) ELSE ISqrt(a) * 100

\* a / n of a fixed-point number a and an integer n > 0
DivInt(a, n) == Sgn(a) * (Abs(a) \div n)

RECURSIVE CosTerms(_, _, _, _)
\* the Taylor series of the cosine from its n-th term on
CosTerms(th2, term, n, last) ==
    IF n > last THEN 0
    ELSE LET next == -DivInt(Mul(term, th2), (2 * n - 1) * (2 * n))
         IN  next + CosTerms(th2, next, n + 1, last)

\* torch.cos of a fixed-point angle in [0, pi/2]
Cos(th) == Unit + CosTerms(Mul(th, th), Unit, 1, 8)

(***************************************************************************)
(* Python sequence indexing: index 0 is the first element, a negative      *)
(* index counts from the end.                                              *)
(***************************************************************************)
InRange(arr, i) == i >= -Len(arr) /\ i < Len(arr)

At(arr, i) == IF i >= 0 THEN arr[i + 1] ELSE arr[Len(arr) + i + 1]

(***************************************************************************)
(* Noise schedule                                                          *)
(***************************************************************************)
Pi == 31416

OffsetS == 80

ClipMin == 1

ClipMax == 9999

\* alphas_cumprod of cosine_beta_schedule before it is normalised, at
\* x = i: cos(((x / timesteps) + s) / (1 + s) * pi * 0.5) ** 2
CosineCumprodRaw(timesteps, i) ==
    LET arg == Mul(Mul(Div(DivInt(i * Unit, timesteps) + OffsetS,
                           Unit + OffsetS), Pi), Unit \div 2)
        c   == Cos(arg)
    IN  Mul(c, c)

\* the points the cosine is sampled at, x = torch.linspace(0, timesteps,
\* steps), as the squared cosines before normalisation
CosinePoints(timesteps) ==
    LET steps == timesteps + 1
    IN  [i \in 1..steps |-> CosineCumprodRaw(timesteps, i - 1)]

\* the schedule computed from one sample point less: timesteps - 1 betas
cosine_beta_schedule_OnePointShort(timesteps) ==
    LET steps == timesteps
        raw   == [i \in 1..steps |-> CosineCumprodRaw(timesteps, i - 1)]
        acp   == [i \in 1..steps |-> Div(raw[i], raw[1])]
    IN  [i \in 1..(steps - 1) |->
            Min2(Max2(Unit - Div(acp[i + 1], acp[i]), ClipMin), ClipMax)]

\* cosine_beta_schedule(timesteps): the sequence of timesteps betas
cosine_beta_schedule(timesteps) ==
    LET steps == timesteps + 1
        raw   == CosinePoints(timesteps)
        acp   == [i \in 1..steps |-> Div(raw[i], raw[1])]
    IN  [i \in 1..(steps - 1) |->
            Min2(Max2(Unit - Div(acp[i + 1], acp[i]), ClipMin), ClipMax)]

\* the exception cosine_beta_schedule(timesteps) ends with, if any:
\* torch.linspace refuses a negative number of steps, alphas_cumprod[0]
\* does not exist when steps = 0; with timesteps = 0 nothing raises
cosine_beta_schedule_raises(timesteps) ==
    IF timesteps + 1 < 0
    THEN [type |-> "RuntimeError",
          message |-> <<"number of steps must be non-negative">>]
    ELSE IF timesteps + 1 = 0
    THEN [type |-> "IndexError",
          message |-> <<"index 0 is out of bounds for dimension 0 with size 0">>]
    ELSE [type |-> "none", message |-> << >>]

RECURSIVE CumProd(_, _)
\* torch.cumprod(alphas)[t], t >= 1 counted from 1, with Unit * Unit = 1.0:
\* the running product keeps twice the digits of its factors
CumProd(alphas, t) ==
    IF t = 1 THEN alphas[1] * Unit
    ELSE Mul(CumProd(alphas, t - 1), alphas[t])

\* alphas_cumprod = torch.cumprod(alphas, axis=0), with Unit * Unit = 1.0
alphas_cumprod(alphas) == [t \in 1..Len(alphas) |-> CumProd(alphas, t)]

\* the schedule derived with alphas = betas instead of 1 - betas
BuildSchedule_AlphasAreBetas(betas) ==
    LET T      == Len(betas)
        alphas == betas
        acFine == alphas_cumprod(alphas)
        ac     == [t \in 1..T |-> acFine[t] \div Unit]
        acPrev == [t \in 1..T |-> IF t = 1 THEN Unit ELSE ac[t - 1]]
    IN  [betas |-> betas,
         alphas |-> alphas,
         sqrt_recip_alphas |-> [t \in 1..T |-> Sqrt(Div(Unit, alphas[t]))],
         sqrt_alphas_cumprod |-> [t \in 1..T |-> ISqrt(acFine[t])],
         sqrt_one_minus_alphas_cumprod |->
             [t \in 1..T |-> ISqrt(Unit * Unit - acFine[t])],
         posterior_variance |->
             [t \in 1..T |->
                 Div(Mul(betas[t], Unit - acPrev[t]), Unit - ac[t])]]

\* the schedule SpecRollDiffusion.__init__ and LatentRollDiffusion.__init__
\* derive from the betas
BuildSchedule(betas) ==
    LET T      == Len(betas)
        alphas == [t \in 1..T |-> Unit - betas[t]]
        acFine == alphas_cumprod(alphas)
        ac     == [t \in 1..T |-> acFine[t] \div Unit]
        acPrev == [t \in 1..T |-> IF t = 1 THEN Unit ELSE ac[t - 1]]
    IN  [betas |-> betas,
         alphas |-> alphas,
         sqrt_recip_alphas |-> [t \in 1..T |-> Sqrt(Div(Unit, alphas[t]))],
         sqrt_alphas_cumprod |-> [t \in 1..T |-> ISqrt(acFine[t])],
         sqrt_one_minus_alphas_cumprod |->
             [t \in 1..T |-> ISqrt(Unit * Unit - acFine[t])],
         posterior_variance |->
             [t \in 1..T |->
                 Div(Mul(betas[t], Unit - acPrev[t]), Unit - ac[t])]]

(***************************************************************************)
(* Tensors: element-wise operations over the batch                         *)
(***************************************************************************)
TAdd(x, y) == [k \in 1..Len(x) |-> x[k] + y[k]]

TSub(x, y) == [k \in 1..Len(x) |-> x[k] - y[k]]

\* c * x for a scalar c
TScale(c, x) == [k \in 1..Len(x) |-> Mul(c, x[k])]

\* x / c for a scalar c
TDivS(x, c) == [k \in 1..Len(x) |-> Div(x[k], c)]

zeros_like(x) == [k \in 1..Len(x) |-> 0]

\* torch.tensor(t_index).repeat(x.shape[0])
Repeat(t_index, x) == [k \in 1..Len(x) |-> t_index]

(***************************************************************************)
(* The random stream: a generator is a seed and the number of tensors      *)
(* drawn so far; a draw is a function of both.                             *)
(***************************************************************************)
NormalVals == <<-12000, -4000, 4000, 12000>>

\* torch.randn_like(x) at generator state g
randn_like(x, g) ==
    [k \in 1..Len(x) |->
        NormalVals[((g.seed + g.pos + 2 * (k - 1)) % Len(NormalVals)) + 1]]

Advance(g, n) == [g EXCEPT !.pos = @ + n]

(***************************************************************************)
(* The denoising network self(x, condition, t, sampling=, inpainting_t=,   *)
(* inpainting_f=): a deterministic function of its inputs, one of a small  *)
(* family.  With sampling=True the condition is overwritten (by -1).       *)
(***************************************************************************)
Nets == {"identity", "cond", "mean"}

NoFlags == [sampling |-> FALSE, inpainting |-> FALSE]

Forward(net, x, cond, t, flags) ==
    LET c == IF flags.sampling THEN [k \in 1..Len(x) |-> -Unit] ELSE cond
        half == [k \in 1..Len(x) |-> DivInt(x[k] + c[k], 2)]
    IN  [pred |-> CASE net = "identity" -> x
                    [] net = "cond" -> IF flags.inpainting THEN half ELSE c
                    [] OTHER -> half,
         side |-> c]

\* the record of one network call
Call(x, cond, t, flags) == [x |-> x, cond |-> cond, t |-> t, flags |-> flags]

(***************************************************************************)
(* Reverse-step strategies.  self is a record [sched, w, net]; g is the    *)
(* generator state at the call.  Each returns the new state (mean), the    *)
(* side channel, the number of tensors drawn, the schedule indices read    *)
(* and the network calls made, in order.                                   *)
(***************************************************************************)
\* sigma with the quotient of its else branch turned over
SigmaAt_QuotientInverted(sched, t_index) ==
    IF t_index = 0
    THEN Mul(Div(Unit, At(sched.sqrt_one_minus_alphas_cumprod, t_index)),
             Sqrt(Unit - At(sched.alphas, t_index)))
    ELSE Mul(Div(At(sched.sqrt_one_minus_alphas_cumprod, t_index),
                 At(sched.sqrt_one_minus_alphas_cumprod, t_index - 1)),
             Sqrt(Unit - At(sched.alphas, t_index)))

\* sigma of the ddpm_x0 family, in its t_index == 0 and its else branch
SigmaAt(sched, t_index) ==
    IF t_index = 0
    THEN Mul(Div(Unit, At(sched.sqrt_one_minus_alphas_cumprod, t_index)),
             Sqrt(Unit - At(sched.alphas, t_index)))
    ELSE Mul(Div(At(sched.sqrt_one_minus_alphas_cumprod, t_index - 1),
                 At(sched.sqrt_one_minus_alphas_cumprod, t_index)),
             Sqrt(Unit - At(sched.alphas, t_index)))

\* 1 - self.sqrt_alphas_cumprod[t_index-1]**2 - sigma**2
Radicand(sched, t_index, sigma) ==
    Unit - Mul(At(sched.sqrt_alphas_cumprod, t_index - 1),
               At(sched.sqrt_alphas_cumprod, t_index - 1))
         - Mul(sigma, sigma)

\* the update with noise added in the t_index == 0 branch too
X0Update_NoisyAtZero(sched, x, x0_pred, t_index, sigma, g) ==
    IF t_index = 0
    THEN [mean  |-> TAdd(TDivS(x0_pred, At(sched.sqrt_alphas_cumprod, t_index)),
                         TScale(sigma, randn_like(x, g))),
          draws |-> 1,
          reads |-> {t_index}]
    ELSE [mean  |->
            TAdd(TAdd(TScale(At(sched.sqrt_alphas_cumprod, t_index - 1),
                             x0_pred),
                      TDivS(TScale(Sqrt(Radicand(sched, t_index, sigma)),
                                   TSub(x, TScale(At(sched.sqrt_alphas_cumprod,
                                                     t_index), x0_pred))),
                            At(sched.sqrt_one_minus_alphas_cumprod, t_index))),
                 TScale(sigma, randn_like(x, g))),
          draws |-> 1,
          reads |-> {t_index - 1, t_index}]

\* the update without its t_index == 0 branch: the posterior blend at every
\* t_index, index t_index - 1 = -1 being the last entry of the schedule
X0Update_NoTerminalBranch(sched, x, x0_pred, t_index, sigma, g) ==
    [mean  |->
        TAdd(TAdd(TScale(At(sched.sqrt_alphas_cumprod, t_index - 1), x0_pred),
                  TDivS(TScale(Sqrt(Radicand(sched, t_index, 0)),
                               TSub(x, TScale(At(sched.sqrt_alphas_cumprod,
                                                 t_index), x0_pred))),
                        At(sched.sqrt_one_minus_alphas_cumprod, t_index))),
             TScale(0, randn_like(x, g))),
     draws |-> IF t_index = 0 THEN 0 ELSE 1,
     reads |-> {t_index - 1, t_index}]

\* the update taking no draw where sigma is zero
X0Update_NoDrawAtZeroSigma(sched, x, x0_pred, t_index, sigma, g) ==
    IF t_index = 0
    THEN [mean  |-> TDivS(x0_pred, At(sched.sqrt_alphas_cumprod, t_index)),
          draws |-> 0,
          reads |-> {t_index}]
    ELSE [mean  |->
            TAdd(TAdd(TScale(At(sched.sqrt_alphas_cumprod, t_index - 1),
                             x0_pred),
                      TDivS(TScale(Sqrt(Radicand(sched, t_index, sigma)),
                                   TSub(x, TScale(At(sched.sqrt_alphas_cumprod,
                                                     t_index), x0_pred))),
                            At(sched.sqrt_one_minus_alphas_cumprod, t_index))),
                 TScale(sigma, randn_like(x, g))),
          draws |-> IF sigma = 0 THEN 0 ELSE 1,
          reads |-> {t_index - 1, t_index}]

\* the update shared by the x0-based strategies, from the x0 estimate on:
\* the t_index == 0 branch and the posterior blend of the else branch
X0Update(sched, x, x0_pred, t_index, sigma, g) ==
    IF t_index = 0
    THEN [mean  |-> TDivS(x0_pred, At(sched.sqrt_alphas_cumprod, t_index)),
          draws |-> 0,
          reads |-> {t_index}]
    ELSE [mean  |->
            TAdd(TAdd(TScale(At(sched.sqrt_alphas_cumprod, t_index - 1),
                             x0_pred),
                      TDivS(TScale(Sqrt(Radicand(sched, t_index, sigma)),
                                   TSub(x, TScale(At(sched.sqrt_alphas_cumprod,
                                                     t_index), x0_pred))),
                            At(sched.sqrt_one_minus_alphas_cumprod, t_index))),
                 TScale(sigma, randn_like(x, g))),
          draws |-> 1,
          reads |-> {t_index - 1, t_index}]

\* the guidance with its two predictions exchanged
Guided_Exchanged(w, x0_pred_c, x0_pred_0) ==
    TSub(TScale(Unit + w, x0_pred_0), TScale(w, x0_pred_c))

\* (1+self.hparams.sampling.w)*x0_pred_c - self.hparams.sampling.w*x0_pred_0
Guided(w, x0_pred_c, x0_pred_0) ==
    TSub(TScale(Unit + w, x0_pred_c), TScale(w, x0_pred_0))

WithNet(upd, side, calls) ==
    [mean |-> upd.mean, side |-> side, draws |-> upd.draws,
     reads |-> upd.reads, calls |-> calls]

ddpm(self, x, waveform, t_index, g) ==
    LET betas_t == At(self.sched.betas, t_index)
        sqrt_one_minus_alphas_cumprod_t ==
            At(self.sched.sqrt_one_minus_alphas_cumprod, t_index)
        sqrt_recip_alphas_t == At(self.sched.sqrt_recip_alphas, t_index)
        t_tensor == Repeat(t_index, x)
        out == Forward(self.net, x, waveform, t_tensor, NoFlags)
        model_mean ==
            TScale(sqrt_recip_alphas_t,
                   TSub(x, TDivS(TScale(betas_t, out.pred),
                                 sqrt_one_minus_alphas_cumprod_t)))
        calls == <<Call(x, waveform, t_tensor, NoFlags)>>
    IN  IF t_index = 0
        THEN [mean |-> model_mean, side |-> out.side, draws |-> 0,
              reads |-> {t_index}, calls |-> calls]
        ELSE [mean |-> TAdd(model_mean,
                            TScale(Sqrt(At(self.sched.posterior_variance,
                                           t_index)),
                                   randn_like(x, g))),
              side |-> out.side, draws |-> 1,
              reads |-> {t_index}, calls |-> calls]

ddpm_x0(self, x, waveform, t_index, g) ==
    LET t_tensor == Repeat(t_index, x)
        out == Forward(self.net, x, waveform, t_tensor, NoFlags)
        sigma == SigmaAt(self.sched, t_index)
    IN  WithNet(X0Update(self.sched, x, out.pred, t_index, sigma, g),
                out.side, <<Call(x, waveform, t_tensor, NoFlags)>>)

\* ddim_x0 with the sigma of ddpm_x0 instead of sigma = 0
ddim_x0_KeepsSigma(self, x, waveform, t_index, g) ==
    LET t_tensor == Repeat(t_index, x)
        out == Forward(self.net, x, waveform, t_tensor, NoFlags)
    IN  WithNet(X0Update(self.sched, x, out.pred, t_index,
                         SigmaAt(self.sched, t_index), g),
                out.side, <<Call(x, waveform, t_tensor, NoFlags)>>)

ddim_x0(self, x, waveform, t_index, g) ==
    LET t_tensor == Repeat(t_index, x)
        out == Forward(self.net, x, waveform, t_tensor, NoFlags)
    IN  WithNet(X0Update(self.sched, x, out.pred, t_index, 0, g),
                out.side, <<Call(x, waveform, t_tensor, NoFlags)>>)

\* (x - self.sqrt_one_minus_alphas_cumprod[t] * epsilon)
\*     / self.sqrt_alphas_cumprod[t]
EpsToX0(sched, x, epsilon, t_index) ==
    TDivS(TSub(x, TScale(At(sched.sqrt_one_minus_alphas_cumprod, t_index),
                         epsilon)),
          At(sched.sqrt_alphas_cumprod, t_index))

ddim(self, x, waveform, t_index, g) ==
    LET t_tensor == Repeat(t_index, x)
        out == Forward(self.net, x, waveform, t_tensor, NoFlags)
        calls == <<Call(x, waveform, t_tensor, NoFlags)>>
    IN  IF t_index = 0
        THEN [mean |-> EpsToX0(self.sched, x, out.pred, t_index),
              side |-> out.side, draws |-> 0, reads |-> {t_index},
              calls |-> calls]
        ELSE [mean |->
                TAdd(TScale(At(self.sched.sqrt_alphas_cumprod, t_index - 1),
                            EpsToX0(self.sched, x, out.pred, t_index)),
                     TScale(At(self.sched.sqrt_one_minus_alphas_cumprod,
                               t_index - 1), out.pred)),
              side |-> out.side, draws |-> 0,
              reads |-> {t_index - 1, t_index}, calls |-> calls]

ddim2ddpm(self, x, waveform, t_index, g) ==
    LET t_tensor == Repeat(t_index, x)
        out == Forward(self.net, x, waveform, t_tensor, NoFlags)
        calls == <<Call(x, waveform, t_tensor, NoFlags)>>
    IN  IF t_index = 0
        THEN [mean |-> EpsToX0(self.sched, x, out.pred, t_index),
              side |-> out.side, draws |-> 0, reads |-> {t_index},
              calls |-> calls]
        ELSE LET sigma == SigmaAt(self.sched, t_index)
             IN  [mean |->
                    TAdd(TAdd(TScale(At(self.sched.sqrt_alphas_cumprod,
                                        t_index - 1),
                                     EpsToX0(self.sched, x, out.pred,
                                             t_index)),
                              TScale(Sqrt(Radicand(self.sched, t_index,
                                                   sigma)), out.pred)),
                         TScale(sigma, randn_like(x, g))),
                  side |-> out.side, draws |-> 1,
                  reads |-> {t_index - 1, t_index}, calls |-> calls]

SamplingFlag == [sampling |-> TRUE, inpainting |-> FALSE]

InpaintingFlag == [sampling |-> FALSE, inpainting |-> TRUE]

\* cfdg_ddpm_x0 keeping the second output of the zero-condition call
cfdg_ddpm_x0_UncondSide(self, x, waveform, t_index, g) ==
    LET t_tensor == Repeat(t_index, x)
        out_c == Forward(self.net, x, waveform, t_tensor, NoFlags)
        out_0 == Forward(self.net, x, zeros_like(waveform), t_tensor,
                         SamplingFlag)
        x0_pred == Guided(self.w, out_c.pred, out_0.pred)
        sigma == SigmaAt(self.sched, t_index)
    IN  WithNet(X0Update(self.sched, x, x0_pred, t_index, sigma, g),
                out_0.side,
                <<Call(x, waveform, t_tensor, NoFlags),
                  Call(x, zeros_like(waveform), t_tensor, SamplingFlag)>>)

cfdg_ddpm_x0(self, x, waveform, t_index, g) ==
    LET t_tensor == Repeat(t_index, x)
        out_c == Forward(self.net, x, waveform, t_tensor, NoFlags)
        out_0 == Forward(self.net, x, zeros_like(waveform), t_tensor,
                         SamplingFlag)
        x0_pred == Guided(self.w, out_c.pred, out_0.pred)
        sigma == SigmaAt(self.sched, t_index)
    IN  WithNet(X0Update(self.sched, x, x0_pred, t_index, sigma, g),
                out_c.side,
                <<Call(x, waveform, t_tensor, NoFlags),
                  Call(x, zeros_like(waveform), t_tensor, SamplingFlag)>>)

\* generation_ddpm_x0 handing the condition itself to the network
generation_ddpm_x0_PassesCondition(self, x, waveform, t_index, g) ==
    LET t_tensor == Repeat(t_index, x)
        out_0 == Forward(self.net, x, waveform, t_tensor, NoFlags)
        sigma == SigmaAt(self.sched, t_index)
    IN  WithNet(X0Update(self.sched, x, out_0.pred, t_index, sigma, g),
                out_0.side,
                <<Call(x, waveform, t_tensor, NoFlags)>>)

generation_ddpm_x0(self, x, waveform, t_index, g) ==
    LET t_tensor == Repeat(t_index, x)
        out_0 == Forward(self.net, x, zeros_like(waveform), t_tensor,
                         SamplingFlag)
        sigma == SigmaAt(self.sched, t_index)
    IN  WithNet(X0Update(self.sched, x, out_0.pred, t_index, sigma, g),
                out_0.side,
                <<Call(x, zeros_like(waveform), t_tensor, SamplingFlag)>>)

inpainting_ddpm_x0(self, x, waveform, t_index, g) ==
    LET t_tensor == Repeat(t_index, x)
        out_c == Forward(self.net, x, waveform, t_tensor, InpaintingFlag)
        out_0 == Forward(self.net, x, zeros_like(waveform), t_tensor,
                         SamplingFlag)
        x0_pred == Guided(self.w, out_c.pred, out_0.pred)
        sigma == SigmaAt(self.sched, t_index)
    IN  WithNet(X0Update(self.sched, x, x0_pred, t_index, sigma, g),
                out_c.side,
                <<Call(x, waveform, t_tensor, InpaintingFlag),
                  Call(x, zeros_like(waveform), t_tensor, SamplingFlag)>>)

cfdg_ddim_x0(self, x, waveform, t_index, g) ==
    LET t_tensor == Repeat(t_index, x)
        out_c == Forward(self.net, x, waveform, t_tensor, NoFlags)
        out_0 == Forward(self.net, x, zeros_like(waveform), t_tensor, NoFlags)
        x0_pred == Guided(self.w, out_c.pred, out_0.pred)
    IN  WithNet(X0Update(self.sched, x, x0_pred, t_index, 0, g),
                out_c.side,
                <<Call(x, waveform, t_tensor, NoFlags),
                  Call(x, waveform, t_tensor, NoFlags),
                  Call(x, zeros_like(waveform), t_tensor, NoFlags)>>)

\* the names getattr(self, sampling.type) resolves to a reverse step
Strategies ==
    {"ddpm", "ddpm_x0", "ddim_x0", "ddim", "ddim2ddpm", "cfdg_ddpm_x0",
     "generation_ddpm_x0", "inpainting_ddpm_x0", "cfdg_ddim_x0"}

\* self.reverse_diffusion(x, waveform, t_index) once bound to a strategy
reverse_diffusion(type, self, x, waveform, t_index, g) ==
    CASE type = "ddpm" -> ddpm(self, x, waveform, t_index, g)
      [] type = "ddpm_x0" -> ddpm_x0(self, x, waveform, t_index, g)
      [] type = "ddim_x0" -> ddim_x0(self, x, waveform, t_index, g)
      [] type = "ddim" -> ddim(self, x, waveform, t_index, g)
      [] type = "ddim2ddpm" -> ddim2ddpm(self, x, waveform, t_index, g)
      [] type = "cfdg_ddpm_x0" -> cfdg_ddpm_x0(self, x, waveform, t_index, g)
      [] type = "generation_ddpm_x0" ->
            generation_ddpm_x0(self, x, waveform, t_index, g)
      [] type = "inpainting_ddpm_x0" ->
            inpainting_ddpm_x0(self, x, waveform, t_index, g)
      [] type = "cfdg_ddim_x0" -> cfdg_ddim_x0(self, x, waveform, t_index, g)

(***************************************************************************)
(* Forward process                                                         *)
(***************************************************************************)
\* sqrt_alphas_cumprod[t] with a tensor t of indices: every index in range
IndexOk(arr, t) == \A k \in 1..Len(t) : InRange(arr, t[k])

\* q_sample taking the coefficients of the first element's timestep for
\* the whole batch
q_sample_FirstTimestep(x_start, t, sqrt_alphas_cumprod, sqrt_one_minus_alphas_cumprod, noise) ==
    [k \in 1..Len(x_start) |->
        Mul(At(sqrt_alphas_cumprod, t[1]), x_start[k])
        + Mul(At(sqrt_one_minus_alphas_cumprod, t[1]), noise[k])]

\* q_sample(x_start, t, sqrt_alphas_cumprod, sqrt_one_minus_alphas_cumprod,
\* noise), all indices of t in range
q_sample(x_start, t, sqrt_alphas_cumprod, sqrt_one_minus_alphas_cumprod, noise) ==
    [k \in 1..Len(x_start) |->
        Mul(At(sqrt_alphas_cumprod, t[k]), x_start[k])
        + Mul(At(sqrt_one_minus_alphas_cumprod, t[k]), noise[k])]

\* the noise argument of a q_sample call: a tensor, or left at its default
NoNoise == [given |-> FALSE, val |-> << >>]

GivenNoise(n) == [given |-> TRUE, val |-> n]

\* what the last line of q_sample raises: with noise left at None the
\* product sqrt_one_minus_alphas_cumprod_t * noise is Tensor * NoneType
q_sample_raises(noise) ==
    IF noise.given
    THEN [type |-> "none", message |-> << >>]
    ELSE [type |-> "TypeError",
          message |-> <<"unsupported operand type(s) for *",
                        "Tensor", "NoneType">>]

\* extract_x0 adding the noise term instead of removing it
extract_x0_AddsNoise(x_t, epsilon, t, sqrt_alphas_cumprod, sqrt_one_minus_alphas_cumprod) ==
    [k \in 1..Len(x_t) |->
        Div(x_t[k] + Mul(At(sqrt_one_minus_alphas_cumprod, t[k]), epsilon[k]),
            At(sqrt_alphas_cumprod, t[k]))]

\* extract_x0(x_t, epsilon, t, sqrt_alphas_cumprod,
\* sqrt_one_minus_alphas_cumprod)
extract_x0(x_t, epsilon, t, sqrt_alphas_cumprod, sqrt_one_minus_alphas_cumprod) ==
    [k \in 1..Len(x_t) |->
        Div(x_t[k] - Mul(At(sqrt_one_minus_alphas_cumprod, t[k]), epsilon[k]),
            At(sqrt_alphas_cumprod, t[k]))]

\* self.normalize of the roll
normalize(frame) == [k \in 1..Len(frame) |-> 2 * frame[k] - Unit]

(***************************************************************************)
(* Bounds and input sets                                                   *)
(***************************************************************************)
MaxT == 3

MaxBatch == 2

MaxSeed == 1

Classes == {"SpecRollDiffusion", "LatentRollDiffusion"}

Ws == {0, Unit \div 2}

CondVals == <<-5000, 5000>>

FrameVals == <<0, Unit>>

Pattern(vals, d, B) == [k \in 1..B |-> vals[((d + k - 1) % Len(vals)) + 1]]

\* the batches handed to predict_step ([noise, condition]) and to
\* test_step ({"frame", "audio" or "dac_latents"})
Batches ==
    {[noise |-> Pattern(NormalVals, d, B),
      cond  |-> Pattern(CondVals, d, B),
      frame |-> Pattern(FrameVals, d + 1, B)] :
        d \in 0..1, B \in 1..MaxBatch}

\* fixed_t of SpecRollDiffusion.sampling
fixed_t == 175

(***************************************************************************)
(* State                                                                   *)
(***************************************************************************)
VARIABLES
    cls,         \* the class of the model instance
    hparams,     \* self.hparams
    schedule,    \* betas, alphas, sqrt_recip_alphas, sqrt_alphas_cumprod, ...
    reverse_diffusion_name, \* the attribute self.reverse_diffusion is bound to
    net,         \* the weights of the denoising network
    rng,         \* the random generator: [seed, pos]
    inner_loop,  \* self.inner_loop.n, the progress counter
    pc,          \* where the running method stands
    entry,       \* the method that runs
    batch,       \* its batch
    cond,        \* the condition the loop passes to the reverse step
    noise,       \* the loop's current state
    noise_list,  \* the trace
    todo,        \* what is left of reversed(range(0, ...))
    steps,       \* the reverse-step invocations so far: t_index, x, result
    roll_pred,   \* noise_list[-1][0] as read by the consumer
    err,         \* the exception that ended the method, or "none"
    events,      \* what a training step has done so far
    losses,      \* the losses a training step returned: (name, value) pairs
    fwd,         \* the last forward corruption: arguments and results
    other,       \* a second sampling run on the same instance: its locals
    notes        \* a call of extract_notes_wo_velocity: arguments and locals

modelVars == <<cls, hparams, schedule, reverse_diffusion_name, net>>

runVars == <<rng, inner_loop, pc, entry, batch, cond, noise, noise_list, todo,
             steps, roll_pred, err>>

trainVars == <<events, losses>>

auxVars == <<fwd, other, notes>>

vars == <<modelVars, runVars, trainVars, auxVars>>

Self == [sched |-> schedule, w |-> hparams.sampling.w, net |-> net]

\* no forward corruption has been made
NoForward ==
    [x_start |-> << >>, t |-> << >>, noise_given |-> TRUE, noise |-> << >>,
     x_t |-> << >>, epsilon |-> << >>, x0_back |-> << >>]

\* no second run
NoRun ==
    [pc |-> "idle", noise |-> << >>, noise_list |-> << >>, todo |-> << >>,
     cond |-> << >>, steps |-> << >>]

\* extract_notes_wo_velocity has not been called
NoNotes ==
    [pc |-> "none", rule |-> "", raw_onsets |-> << >>, raw_frames |-> << >>,
     onset_threshold |-> 0, onsets |-> << >>, frames |-> << >>,
     todo |-> << >>, pitch |-> 0, onset |-> 0, offset |-> 0, reads |-> {},
     pitches |-> << >>, intervals |-> << >>, type |-> ""]

\* an exception: its type and the parts of its message
Raised(type, message) == [type |-> type, message |-> message]

NoError == Raised("none", << >>)

(***************************************************************************)
(* The sampling loops                                                      *)
(***************************************************************************)
\* reversed(range(lo + 1, hi)): the loop stops before index lo
ReversedRange_StopsEarly(lo, hi) ==
    IF hi > lo + 1 THEN [i \in 1..(hi - lo - 1) |-> hi - i] ELSE << >>

\* reversed(range(lo, hi))
ReversedRange(lo, hi) ==
    IF hi > lo THEN [i \in 1..(hi - lo) |-> hi - i] ELSE << >>

\* noise.detach().cpu().numpy(): the same float32 values in an ndarray
numpy(x) == [kind |-> "ndarray", val |-> x]

tensor(x) == [kind |-> "tensor", val |-> x]

\* one trace entry, the tuple (state, label)
Entry(x, t) == <<x, t>>

\* the loop body with the result of the step discarded: every step is fed the
\* state the loop started with
LoopIteration_StaleState(type, self, c, st, t_index) ==
    LET x0        == st.noise_list[1][1].val
        r         == reverse_diffusion(type, self, x0, c, t_index, st.rng)
        noise_npy == numpy(r.mean)
    IN  [noise      |-> r.mean,
         noise_list |-> Append(st.noise_list, Entry(noise_npy, t_index)),
         rng        |-> Advance(st.rng, r.draws),
         n          |-> st.n + 1,
         sched      |-> self.sched,
         call       |-> [t_index |-> t_index, x |-> x0, cond |-> c,
                         g |-> st.rng, out |-> r.mean, draws |-> r.draws,
                         reads |-> r.reads, calls |-> r.calls,
                         side |-> r.side]]

\* the loop body labelling its entry self.hparams.timesteps - t_index
LoopIteration_CountsUp(type, self, c, st, t_index) ==
    LET r         == reverse_diffusion(type, self, st.noise, c, t_index, st.rng)
        noise_npy == numpy(r.mean)
    IN  [noise      |-> r.mean,
         noise_list |-> Append(st.noise_list,
                               Entry(noise_npy,
                                     Len(self.sched.betas) - t_index)),
         rng        |-> Advance(st.rng, r.draws),
         n          |-> st.n + 1,
         sched      |-> self.sched,
         call       |-> [t_index |-> t_index, x |-> st.noise, cond |-> c,
                         g |-> st.rng, out |-> r.mean, draws |-> r.draws,
                         reads |-> r.reads, calls |-> r.calls,
                         side |-> r.side]]

\* the loop body writing through a view of the schedule: betas[t_index]
\* is zeroed in place
LoopIteration_WritesSchedule(type, self, c, st, t_index) ==
    LET r         == reverse_diffusion(type, self, st.noise, c, t_index, st.rng)
        noise_npy == numpy(r.mean)
    IN  [noise      |-> r.mean,
         noise_list |-> Append(st.noise_list, Entry(noise_npy, t_index)),
         rng        |-> Advance(st.rng, r.draws),
         n          |-> st.n + 1,
         sched      |-> [self.sched EXCEPT !.betas[t_index + 1] = 0],
         call       |-> [t_index |-> t_index, x |-> st.noise, cond |-> c,
                         g |-> st.rng, out |-> r.mean, draws |-> r.draws,
                         reads |-> r.reads, calls |-> r.calls,
                         side |-> r.side]]

\* the loop body labelling the state a step returned like the state it was
\* fed: t_index + 1
LoopIteration_LabelsInput(type, self, c, st, t_index) ==
    LET r         == reverse_diffusion(type, self, st.noise, c, t_index, st.rng)
        noise_npy == numpy(r.mean)
    IN  [noise      |-> r.mean,
         noise_list |-> Append(st.noise_list, Entry(noise_npy, t_index + 1)),
         rng        |-> Advance(st.rng, r.draws),
         n          |-> st.n + 1,
         sched      |-> self.sched,
         call       |-> [t_index |-> t_index, x |-> st.noise, cond |-> c,
                         g |-> st.rng, out |-> r.mean, draws |-> r.draws,
                         reads |-> r.reads, calls |-> r.calls,
                         side |-> r.side]]

\* the body of the loop of predict_step and sampling
LoopIteration(type, self, c, st, t_index) ==
    LET r         == reverse_diffusion(type, self, st.noise, c, t_index, st.rng)
        noise_npy == numpy(r.mean)
    IN  [noise      |-> r.mean,
         noise_list |-> Append(st.noise_list, Entry(noise_npy, t_index)),
         rng        |-> Advance(st.rng, r.draws),
         n          |-> st.n + 1,
         sched      |-> self.sched,
         call       |-> [t_index |-> t_index, x |-> st.noise, cond |-> c,
                         g |-> st.rng, out |-> r.mean, draws |-> r.draws,
                         reads |-> r.reads, calls |-> r.calls,
                         side |-> r.side]]

\* predict_step up to the loop, of both classes
PredictStepBegin ==
    /\ pc = "idle"
    /\ \E b \in Batches :
        /\ batch' = b
        /\ noise' = b.noise
        /\ cond' = b.cond
        /\ noise_list' = <<Entry(tensor(b.noise), hparams.timesteps)>>
    /\ entry' = "predict_step"
    /\ inner_loop' = 0
    /\ todo' = ReversedRange(0, hparams.timesteps)
    /\ pc' = "loop"
    /\ UNCHANGED <<modelVars, rng, steps, roll_pred, err, trainVars,
                   auxVars>>

\* test_step of LatentRollDiffusion up to the loop of its sampling
LatentSamplingBegin ==
    /\ pc = "idle"
    /\ cls = "LatentRollDiffusion"
    /\ \E b \in Batches :
        LET roll == normalize(b.frame)
            n0   == randn_like(roll, rng)
        IN  /\ batch' = b
            /\ noise' = n0
            /\ cond' = IF hparams.debug THEN roll ELSE b.cond
            /\ noise_list' = <<Entry(tensor(n0), hparams.timesteps)>>
    /\ rng' = Advance(rng, 1)
    /\ entry' = "test_step"
    /\ inner_loop' = 0
    /\ todo' = ReversedRange(0, hparams.timesteps)
    /\ pc' = "loop"
    /\ UNCHANGED <<modelVars, steps, roll_pred, err, trainVars,
                   auxVars>>

\* test_step of SpecRollDiffusion up to the loop of its sampling
SpecSamplingBegin ==
    /\ pc = "idle"
    /\ cls = "SpecRollDiffusion"
    /\ \E b \in Batches :
        LET roll == normalize(b.frame)
            n0   == randn_like(roll, rng)
            t    == Repeat(fixed_t - 1, roll)
        IN  /\ batch' = b
            /\ cond' = IF hparams.debug THEN roll ELSE b.cond
            /\ fwd' = [x_start |-> roll, t |-> t, noise_given |-> TRUE,
                       noise |-> n0,
                       x_t |-> IF IndexOk(schedule.sqrt_alphas_cumprod, t)
                               THEN q_sample(roll, t,
                                      schedule.sqrt_alphas_cumprod,
                                      schedule.sqrt_one_minus_alphas_cumprod,
                                      n0)
                               ELSE << >>,
                       epsilon |-> << >>, x0_back |-> << >>]
            /\ IF IndexOk(schedule.sqrt_alphas_cumprod, t)
               THEN LET x_t == q_sample(roll, t, schedule.sqrt_alphas_cumprod,
                                  schedule.sqrt_one_minus_alphas_cumprod, n0)
                    IN  /\ noise' = x_t
                        /\ noise_list' = <<Entry(tensor(x_t), fixed_t)>>
                        /\ todo' = ReversedRange(0, fixed_t)
                        /\ pc' = "loop"
                        /\ err' = err
               ELSE /\ noise' = n0
                    /\ pc' = "raised"
                    /\ err' = Raised("IndexError", <<"index", fixed_t - 1,
                                       "is out of bounds for dimension 0",
                                       "with size", hparams.timesteps>>)
                    /\ UNCHANGED <<noise_list, todo>>
    /\ rng' = Advance(rng, 1)
    /\ entry' = "test_step"
    /\ inner_loop' = 0
    /\ UNCHANGED <<modelVars, steps, roll_pred, trainVars, other, notes>>

\* one iteration of the loop
ReverseStep ==
    /\ pc = "loop"
    /\ todo # << >>
    /\ LET t_index == Head(todo)
           st == [noise |-> noise, noise_list |-> noise_list, rng |-> rng,
                  n |-> inner_loop]
           nx == LoopIteration(reverse_diffusion_name, Self, cond, st, t_index)
       IN  /\ noise' = nx.noise
           /\ noise_list' = nx.noise_list
           /\ rng' = nx.rng
           /\ inner_loop' = nx.n
           /\ schedule' = nx.sched
           /\ steps' = Append(steps, nx.call)
    /\ todo' = Tail(todo)
    /\ UNCHANGED <<cls, hparams, reverse_diffusion_name, net, pc, entry,
                   batch, cond, roll_pred, err, trainVars, auxVars>>

\* the loop is exhausted: roll_pred = noise_list[-1][0]
LoopExit ==
    /\ pc = "loop"
    /\ todo = << >>
    /\ roll_pred' = At(noise_list, -1)[1]
    /\ pc' = "done"
    /\ UNCHANGED <<modelVars, rng, inner_loop, entry, batch, cond, noise,
                   noise_list, todo, steps, err, trainVars,
                   auxVars>>

\* a model as its constructor leaves it
Constructed(c, hp, nt, seed) ==
    /\ cls = c
    /\ hparams = hp
    /\ schedule = BuildSchedule(cosine_beta_schedule(hp.timesteps))
    /\ reverse_diffusion_name = hp.sampling.type
    /\ net = nt
    /\ rng = [seed |-> seed, pos |-> 0]
    /\ inner_loop = 0

NoCall ==
    /\ pc = "idle"
    /\ entry = "none"
    /\ batch = "none"
    /\ cond = << >>
    /\ noise = << >>
    /\ noise_list = << >>
    /\ todo = << >>
    /\ steps = << >>
    /\ roll_pred = "none"
    /\ err = NoError
    /\ events = << >>
    /\ losses = << >>
    /\ fwd = NoForward
    /\ other = NoRun

Quiet ==
    /\ NoCall
    /\ notes = NoNotes

Init ==
    /\ \E c \in Classes, T \in 1..MaxT, ty \in Strategies, w \in Ws,
          dbg \in BOOLEAN, nt \in Nets, seed \in 0..MaxSeed :
          Constructed(c, [timesteps |-> T,
                          sampling |-> [type |-> ty, w |-> w],
                          debug |-> dbg,
                          loss_type |-> "l1",
                          training |-> [mode |-> "x_0"]], nt, seed)
    /\ Quiet

Next ==
    \/ PredictStepBegin
    \/ LatentSamplingBegin
    \/ SpecSamplingBegin
    \/ ReverseStep
    \/ LoopExit

Spec == Init /\ [][Next]_vars

(***************************************************************************)
(* Construction and the training step                                      *)
(***************************************************************************)
\* what getattr(self, name) finds when __init__ binds reverse_diffusion:
\* the methods of the class and the attributes assigned before that line
\* (self.alphas is assigned after it)
AttributesAtBind ==
    Strategies \cup {"p_losses", "step", "sampling", "predict_step",
                     "test_step", "betas", "sqrt_recip_alphas",
                     "sqrt_alphas_cumprod", "sqrt_one_minus_alphas_cumprod",
                     "posterior_variance", "inner_loop"}

\* the values of sampling.type, loss_type and training.mode tried
SamplingTypes == Strategies \cup {"p_losses", "betas", "alphas", "cfdg_ddpm"}

LossTypes == {"l1", "l2", "huber"}

LossTypesTried == LossTypes \cup {"mse"}

\* the values of timesteps tried
TimestepsTried == -2..MaxT

TrainingModes == {"epsilon", "x_0", "ex_0"}

TrainingModesTried == TrainingModes \cup {"v"}

RECURSIVE SumTo(_, _)
SumTo(xs, n) == IF n = 0 THEN 0 ELSE xs[n] + SumTo(xs, n - 1)

\* the mean reduction of the losses
Mean(xs) == DivInt(SumTo(xs, Len(xs)), Len(xs))

\* p_losses(label, prediction, loss_type): the loss, or the exception
p_losses(label, prediction, loss_type) ==
    LET d == [k \in 1..Len(label) |-> label[k] - prediction[k]]
    IN  CASE loss_type = "l1" ->
               [raised |-> NoError,
                loss |-> Mean([k \in 1..Len(d) |-> Abs(d[k])])]
          [] loss_type = "l2" ->
               [raised |-> NoError,
                loss |-> Mean([k \in 1..Len(d) |-> Mul(d[k], d[k])])]
          [] loss_type = "huber" ->
               [raised |-> NoError,
                loss |-> Mean([k \in 1..Len(d) |->
                                 IF Abs(d[k]) < Unit
                                 THEN Mul(d[k], d[k]) \div 2
                                 ELSE Abs(d[k]) - Unit \div 2])]
          [] OTHER ->
               [raised |-> Raised("NotImplementedError", << >>), loss |-> 0]

\* torch.randint(low, high, (batch_size,)) at generator state g, high > low
randint(low, high, batch_size, g) ==
    [k \in 1..batch_size |-> low + ((g.seed + g.pos + k - 1) % (high - low))]

\* how a training step ends: the exception or the losses, with what it did
StepRaises(type, message, events_, draws) ==
    [raised |-> Raised(type, message), losses |-> << >>,
     events |-> events_, draws |-> draws]

StepReturns(losses_, events_, draws) ==
    [raised |-> NoError, losses |-> losses_, events |-> events_,
     draws |-> draws]

UnboundLocal(name) ==
    <<"local variable", name, "referenced before assignment">>

\* the forward corruption of a training step: t drawn per batch element,
\* the label noise, x_t = q_sample(roll, t, ..., noise)
step_q_sample(hp, sched, b, g) ==
    LET roll   == normalize(b.frame)
        t      == randint(0, hp.timesteps, Len(roll), g)
        noise_ == randn_like(roll, Advance(g, 1))
    IN  [x_start |-> roll, t |-> t, noise_given |-> TRUE, noise |-> noise_,
         x_t |-> q_sample(roll, t, sched.sqrt_alphas_cumprod,
                          sched.sqrt_one_minus_alphas_cumprod, noise_),
         epsilon |-> << >>, x0_back |-> << >>]

\* SpecRollDiffusion.step(batch); bt.list says batch is a list of two
SpecRollDiffusion_step(hp, sched, nt, bt, g) ==
    LET roll     == normalize(bt.first.frame)
        waveform == bt.first.cond
        roll2    == normalize(bt.second.frame)
        waveform2 == bt.second.cond
        fw       == step_q_sample(hp, sched, bt.first, g)
        t        == fw.t
        noise_   == fw.noise
        x_t      == fw.x_t
        begun    == <<"randint", "randn_like", "q_sample">>
        mode     == hp.training.mode
    IN  IF hp.timesteps <= 0 THEN
            StepRaises("RuntimeError",
                       <<"random_ expects 'from' to be less than 'to'">>,
                       << >>, 0)
        ELSE IF mode = "epsilon" THEN
            LET out  == Forward(nt, x_t, IF hp.debug THEN roll ELSE waveform,
                                t, NoFlags)
                loss == p_losses(noise_, out.pred, hp.loss_type)
                ev   == begun \o <<"forward", "p_losses">>
            IN  IF loss.raised # NoError
                THEN StepRaises(loss.raised.type, loss.raised.message, ev, 2)
                ELSE IF bt.list
                THEN StepRaises("UnboundLocalError", UnboundLocal("spec2"),
                                ev \o <<"extract_x0">>, 2)
                ELSE StepReturns(<<<<"diffusion_loss", loss.loss>>>>,
                                 ev \o <<"extract_x0">>, 2)
        ELSE IF mode = "x_0" THEN
            LET out  == Forward(nt, x_t, waveform, t, NoFlags)
                loss == p_losses(roll, out.pred, hp.loss_type)
                ev   == begun \o <<"forward", "p_losses">>
                x_t2 == q_sample(roll2, t, sched.sqrt_alphas_cumprod,
                                 sched.sqrt_one_minus_alphas_cumprod, noise_)
                out2 == Forward(nt, x_t2, waveform2, t, SamplingFlag)
                loss2 == p_losses(roll2, out2.pred, hp.loss_type)
            IN  IF loss.raised # NoError
                THEN StepRaises(loss.raised.type, loss.raised.message, ev, 2)
                ELSE IF bt.list
                THEN StepReturns(
                        <<<<"diffusion_loss", loss.loss>>,
                          <<"unconditional_diffusion_loss", loss2.loss>>>>,
                        ev \o <<"q_sample", "forward", "p_losses">>, 2)
                ELSE StepReturns(<<<<"diffusion_loss", loss.loss>>>>, ev, 2)
        ELSE IF mode = "ex_0" THEN
            LET out  == Forward(nt, x_t, waveform, t, NoFlags)
                pred_roll == extract_x0(x_t, out.pred, t,
                                        sched.sqrt_alphas_cumprod,
                                        sched.sqrt_one_minus_alphas_cumprod)
                loss == p_losses(roll, pred_roll, hp.loss_type)
                ev   == begun \o <<"forward", "extract_x0", "p_losses">>
            IN  IF loss.raised # NoError
                THEN StepRaises(loss.raised.type, loss.raised.message, ev, 2)
                ELSE IF bt.list
                THEN StepRaises("UnboundLocalError", UnboundLocal("spec2"),
                                ev, 2)
                ELSE StepReturns(<<<<"diffusion_loss", loss.loss>>>>, ev, 2)
        ELSE \* the message reads self.training.mode, and self.training is the
             \* module's train/eval flag
             StepRaises("AttributeError",
                        <<"'bool' object has no attribute", "mode">>, begun, 2)

\* LatentRollDiffusion.step(batch, batch_idx)
LatentRollDiffusion_step(hp, sched, nt, bt, g) ==
    LET roll     == normalize(bt.first.frame)
        latents  == bt.first.cond
        fw       == step_q_sample(hp, sched, bt.first, g)
        t        == fw.t
        noise_   == fw.noise
        x_t      == fw.x_t
        begun    == <<"randint", "randn_like", "q_sample">>
        mode     == hp.training.mode
    IN  IF hp.timesteps <= 0 THEN
            StepRaises("RuntimeError",
                       <<"random_ expects 'from' to be less than 'to'">>,
                       << >>, 0)
        ELSE IF mode = "epsilon" THEN
            LET out  == Forward(nt, x_t, IF hp.debug THEN roll ELSE latents,
                                t, NoFlags)
                loss == p_losses(noise_, out.pred, hp.loss_type)
                ev   == begun \o <<"forward", "p_losses">>
            IN  IF loss.raised # NoError
                THEN StepRaises(loss.raised.type, loss.raised.message, ev, 2)
                ELSE StepReturns(<<<<"diffusion_loss", loss.loss>>>>,
                                 ev \o <<"extract_x0">>, 2)
        ELSE IF mode = "x_0" THEN
            LET out  == Forward(nt, x_t, latents, t, NoFlags)
                loss == p_losses(roll, out.pred, hp.loss_type)
                ev   == begun \o <<"forward", "p_losses">>
            IN  IF loss.raised # NoError
                THEN StepRaises(loss.raised.type, loss.raised.message, ev, 2)
                ELSE StepReturns(<<<<"diffusion_loss", loss.loss>>>>, ev, 2)
        ELSE \* no branch assigns diffusion_loss, and the return reads it
             StepRaises("UnboundLocalError", UnboundLocal("diffusion_loss"),
                        begun, 2)

\* the batches of a training step: one dataset, or a list of two
TrainingBatches ==
    {[list |-> l, first |-> b, second |-> b] :
        l \in BOOLEAN, b \in Batches}

\* __init__ of both classes: the schedule, the progress bar, then
\* self.reverse_diffusion = getattr(self, sampling.type)
Construct ==
    /\ pc = "new"
    /\ entry' = "__init__"
    /\ IF cosine_beta_schedule_raises(hparams.timesteps) # NoError
       THEN /\ pc' = "raised"
            /\ err' = cosine_beta_schedule_raises(hparams.timesteps)
            /\ UNCHANGED <<schedule, reverse_diffusion_name>>
       ELSE IF hparams.sampling.type \in AttributesAtBind
       THEN /\ schedule' =
                  BuildSchedule(cosine_beta_schedule(hparams.timesteps))
            /\ reverse_diffusion_name' = hparams.sampling.type
            /\ pc' = "idle"
            /\ err' = err
       ELSE /\ pc' = "raised"
            /\ err' = Raised("AttributeError",
                             <<"object has no attribute",
                               hparams.sampling.type>>)
            /\ UNCHANGED <<schedule, reverse_diffusion_name>>
    /\ UNCHANGED <<cls, hparams, net, rng, inner_loop, batch, cond, noise,
                   noise_list, todo, steps, roll_pred, trainVars, auxVars>>

\* one training step: step(batch) of the class
TrainingStep ==
    /\ pc = "idle"
    /\ \E bt \in TrainingBatches :
        /\ cls = "LatentRollDiffusion" => ~bt.list
        /\ LET r == IF cls = "SpecRollDiffusion"
                    THEN SpecRollDiffusion_step(hparams, schedule, net, bt,
                                                rng)
                    ELSE LatentRollDiffusion_step(hparams, schedule, net, bt,
                                                  rng)
           IN  /\ batch' = bt
               /\ events' = r.events
               /\ losses' = r.losses
               /\ err' = r.raised
               /\ rng' = Advance(rng, r.draws)
               /\ pc' = IF r.raised = NoError THEN "stepped" ELSE "raised"
    /\ entry' = "step"
    /\ fwd' = IF hparams.timesteps <= 0 THEN NoForward
               ELSE step_q_sample(hparams, schedule, batch'.first, rng)
    /\ UNCHANGED <<modelVars, inner_loop, cond, noise, noise_list, todo,
                   steps, roll_pred, other, notes>>

\* the arguments of a constructor call, nothing built yet
InitConfig ==
    /\ \E c \in Classes, T \in TimestepsTried, ty \in SamplingTypes,
          lt \in LossTypesTried, md \in TrainingModesTried,
          dbg \in BOOLEAN, seed \in 0..MaxSeed :
          /\ cls = c
          /\ hparams = [timesteps |-> T,
                        sampling |-> [type |-> ty, w |-> 0],
                        debug |-> dbg,
                        loss_type |-> lt,
                        training |-> [mode |-> md]]
          /\ rng = [seed |-> seed, pos |-> 0]
    /\ net = "mean"
    /\ schedule = "none"
    /\ reverse_diffusion_name = "none"
    /\ inner_loop = 0
    /\ pc = "new"
    /\ entry = "none"
    /\ batch = "none"
    /\ cond = << >>
    /\ noise = << >>
    /\ noise_list = << >>
    /\ todo = << >>
    /\ steps = << >>
    /\ roll_pred = "none"
    /\ err = NoError
    /\ events = << >>
    /\ losses = << >>
    /\ fwd = NoForward
    /\ other = NoRun
    /\ notes = NoNotes

NextConfig ==
    \/ Construct
    \/ TrainingStep

SpecConfig == InitConfig /\ [][NextConfig]_vars

(***************************************************************************)
(* Properties of the sampling loop                                         *)
(***************************************************************************)
\* a run of one of the loops over range(0, self.hparams.timesteps)
FullRun ==
    \/ entry = "predict_step"
    \/ entry = "test_step" /\ cls = "LatentRollDiffusion"

\* C1: a full sampling run with T timesteps invokes the reverse step with
\* t_index = T-1, T-2, ... in that order, none skipped or repeated, and has
\* invoked it exactly T times, the last time with t_index = 0, when it
\* completes.
C1_StepsCountDown ==
    FullRun =>
        /\ \A i \in 1..Len(steps) : steps[i].t_index = hparams.timesteps - i
        /\ pc = "done" => Len(steps) = hparams.timesteps

C1_Witness ==
    /\ FullRun
    /\ pc = "done"
    /\ entry = "test_step"
    /\ hparams.timesteps = MaxT
    /\ Len(steps) = MaxT
    /\ steps[MaxT].t_index = 0

\* C2: every reverse step receives the state the preceding step returned,
\* the first one the initial noise, and the trace entry recorded for a step
\* is the state that step returned, under that step's t_index.
C2_StateThreading ==
    \A i \in 1..Len(steps) :
        /\ steps[i].x = IF i = 1 THEN noise_list[1][1].val
                                 ELSE steps[i - 1].out
        /\ i = 1 /\ entry = "predict_step" => steps[i].x = batch.noise
        /\ Len(noise_list) >= i + 1
        /\ noise_list[i + 1] = Entry(numpy(steps[i].out), steps[i].t_index)

C2_Witness ==
    /\ pc = "done"
    /\ Len(steps) >= 3
    /\ steps[1].out # steps[1].x
    /\ steps[2].out # steps[1].out
    /\ steps[3].x = steps[2].out
    /\ steps[3].x # noise_list[1][1].val

IsPrefix(s, t) == Len(s) <= Len(t) /\ \A i \in 1..Len(s) : s[i] = t[i]

\* the noise a run starts from: batch[0], or the first draw of sampling
InitialNoise ==
    IF entry = "predict_step" THEN batch.noise
    ELSE randn_like(normalize(batch.frame), [seed |-> rng.seed, pos |-> 0])

TraceShape ==
    (FullRun /\ pc \in {"loop", "done"}) =>
        /\ noise_list[1] = Entry(tensor(InitialNoise), hparams.timesteps)
        /\ \A i \in 1..Len(noise_list) :
              noise_list[i][2] = hparams.timesteps - (i - 1)
        /\ pc = "done" =>
              /\ Len(noise_list) = hparams.timesteps + 1
              /\ noise_list[Len(noise_list)][2] = 0

\* C3: the trace of a full run only grows by appending; it starts with
\* (initial noise, T); its labels so far are T, T-1, ... without a gap at
\* every point of the run; at completion it has T + 1 entries, the last one
\* labelled 0.
C3_TraceAppendOnly ==
    [][/\ TraceShape
       /\ TraceShape'
       /\ IsPrefix(noise_list, noise_list')]_vars

C3_Witness ==
    /\ FullRun
    /\ pc = "done"
    /\ hparams.timesteps = MaxT
    /\ Len(noise_list) = MaxT + 1
    /\ noise_list[1][2] = MaxT
    /\ noise_list[MaxT + 1][2] = 0

\* the run has ended, by returning or by raising
Ended == pc \in {"done", "raised"}

\* C4: every sampling run ends right after the step with t_index = 0: the
\* step with t_index = 0 is the last one made, the last trace entry is
\* labelled 0 and is what the consumer reads as noise_list[-1][0].
C4_EndsAfterStepZero ==
    (Ended /\ entry \in {"predict_step", "test_step"}) =>
        /\ steps # << >>
        /\ steps[Len(steps)].t_index = 0
        /\ noise_list # << >>
        /\ noise_list[Len(noise_list)][2] = 0
        /\ roll_pred = noise_list[Len(noise_list)][1]

(***************************************************************************)
(* Properties of the reverse steps, over the steps the loops make          *)
(***************************************************************************)
StochasticVariants ==
    {"ddpm", "ddpm_x0", "ddim2ddpm", "cfdg_ddpm_x0", "generation_ddpm_x0",
     "inpainting_ddpm_x0"}

X0Variants ==
    {"ddpm_x0", "ddim_x0", "cfdg_ddpm_x0", "generation_ddpm_x0",
     "inpainting_ddpm_x0", "cfdg_ddim_x0"}

Generators == {[seed |-> sd, pos |-> ps] : sd \in 0..MaxSeed, ps \in 0..MaxT}

\* C5: a step of a stochastic variant at t_index = 0 draws nothing from
\* the random stream, and returns the same state at every state of the
\* generator.
C5_NoNoiseAtStepZero ==
    \A i \in 1..Len(steps) :
        (reverse_diffusion_name \in StochasticVariants
            /\ steps[i].t_index = 0) =>
            /\ steps[i].draws = 0
            /\ \A g \in Generators :
                  reverse_diffusion(reverse_diffusion_name, Self, steps[i].x,
                                    steps[i].cond, 0, g).mean = steps[i].out

C5_Witness ==
    /\ reverse_diffusion_name \in StochasticVariants
    /\ Len(steps) >= 2
    /\ steps[Len(steps) - 1].draws = 1
    /\ steps[Len(steps)].t_index = 0
    /\ steps[Len(steps)].g.pos > 0

\* what the network returned at a recorded call
PredOf(c) == Forward(net, c.x, c.cond, c.t, c.flags).pred

\* the x0 estimate of a recorded step: the network prediction, guided where
\* the variant guides
X0Estimate(type, s) ==
    LET w == hparams.sampling.w
        guided(c, u) == [k \in 1..Len(c) |->
                            Mul(Unit + w, c[k]) - Mul(w, u[k])]
    IN  CASE type \in {"ddpm_x0", "ddim_x0", "generation_ddpm_x0"} ->
                PredOf(s.calls[1])
          [] type \in {"cfdg_ddpm_x0", "inpainting_ddpm_x0"} ->
                guided(PredOf(s.calls[1]), PredOf(s.calls[2]))
          [] type = "cfdg_ddim_x0" ->
                guided(PredOf(s.calls[2]), PredOf(s.calls[3]))

\* C6: a step of an x0-based variant at t_index = 0 returns the x0 estimate
\* divided by sqrt_alphas_cumprod[0], and reads the schedule at index 0
\* only, never at index -1.
C6_TerminalStepIsX0 ==
    \A i \in 1..Len(steps) :
        (reverse_diffusion_name \in X0Variants /\ steps[i].t_index = 0) =>
            /\ steps[i].out =
                  [k \in 1..Len(steps[i].x) |->
                      Div(X0Estimate(reverse_diffusion_name, steps[i])[k],
                          schedule.sqrt_alphas_cumprod[1])]
            /\ steps[i].reads = {0}

C6_Witness ==
    /\ reverse_diffusion_name = "cfdg_ddim_x0"
    /\ hparams.sampling.w # 0
    /\ net = "mean"
    /\ Len(steps) >= 2
    /\ steps[Len(steps)].t_index = 0
    /\ steps[Len(steps)].out # steps[Len(steps)].x

C8_UnknownSamplingTypeFailsAtConstruction ==
    (hparams.sampling.type \notin Strategies /\ pc # "new") =>
        /\ entry = "__init__"
        /\ pc = "raised"
        /\ reverse_diffusion_name = "none"

\* C9: constructing a model with a loss_type other than l1, l2 and huber
\* raises in __init__, before any forward corruption, network call or
\* training step.
C9_UnknownLossTypeFailsAtConstruction ==
    (hparams.loss_type \notin LossTypes /\ pc # "new") =>
        /\ entry = "__init__"
        /\ pc = "raised"
        /\ events = << >>

\* the exception names the training mode of the configuration
ReportsMode ==
    \E i \in 1..Len(err.message) : err.message[i] = hparams.training.mode

\* C10: a training step under a mode outside epsilon, x_0, ex_0 raises an
\* error that reports the mode and returns no losses; a training step under
\* one of the three modes (a known loss_type, timesteps >= 1) returns a
\* diffusion loss.
C10_TrainingModeDecidesTheStep ==
    (entry = "step" /\ hparams.loss_type \in LossTypes
        /\ hparams.timesteps >= 1) =>
        IF hparams.training.mode \in TrainingModes
        THEN /\ pc = "stepped"
             /\ \E i \in 1..Len(losses) : losses[i][1] = "diffusion_loss"
        ELSE /\ pc = "raised"
             /\ losses = << >>
             /\ ReportsMode

(***************************************************************************)
(* Properties of the schedule                                              *)
(***************************************************************************)
ScheduleArrays ==
    <<schedule.betas, schedule.alphas, schedule.sqrt_recip_alphas,
      schedule.sqrt_alphas_cumprod, schedule.sqrt_one_minus_alphas_cumprod,
      schedule.posterior_variance>>

\* C12: for T >= 1 the cosine is sampled at T + 1 points and gives T betas;
\* the six schedule arrays of the model all have length T, and every index
\* a reverse step reads them at lies in 0..T-1.
C12_ScheduleLengths ==
    LET T == hparams.timesteps
    IN  /\ pc = "idle" =>
              /\ Len(CosinePoints(T)) = T + 1
              /\ Len(cosine_beta_schedule(T)) = T
        /\ \A a \in 1..Len(ScheduleArrays) : Len(ScheduleArrays[a]) = T
        /\ \A i \in 1..Len(steps) : steps[i].reads \subseteq 0..(T - 1)

C12_Witness ==
    /\ hparams.timesteps = MaxT
    /\ Len(schedule.posterior_variance) = MaxT
    /\ pc = "done"
    /\ Len(steps) = MaxT
    /\ MaxT - 1 \in steps[1].reads
    /\ 0 \in steps[MaxT].reads

\* C13: in the schedule of a constructed model every beta lies in
\* [1e-4, 0.9999]; alphas_cumprod[0] = 1 - betas[0]; alphas_cumprod decreases
\* strictly with t, and sqrt_alphas_cumprod is its square root.
C13_ScheduleValues ==
    LET T  == hparams.timesteps
        ac == alphas_cumprod(schedule.alphas)
    IN  /\ \A t \in 1..T : /\ schedule.betas[t] >= ClipMin
                           /\ schedule.betas[t] <= ClipMax
        /\ pc = "idle" =>
              /\ ac[1] = (Unit - schedule.betas[1]) * Unit
              /\ \A t \in 1..(T - 1) : ac[t + 1] < ac[t]
              /\ T >= 2 => ac[T] < ac[1]
              /\ \A t \in 1..T :
                    schedule.sqrt_alphas_cumprod[t] = ISqrt(ac[t])

C13_Witness ==
    /\ pc = "idle"
    /\ hparams.timesteps = MaxT
    /\ schedule.betas[MaxT] = ClipMax
    /\ schedule.betas[1] > ClipMin
    /\ schedule.betas[1] < ClipMax
    /\ schedule.sqrt_alphas_cumprod[MaxT] < schedule.sqrt_alphas_cumprod[1]
    /\ schedule.sqrt_alphas_cumprod[MaxT] > 0

(***************************************************************************)
(* Properties of construction, continued                                   *)
(***************************************************************************)
\* C11: constructing a model with timesteps <= 0 raises in __init__: no
\* model with a schedule of zero or negative length exists afterwards.
C11_NonPositiveTimestepsFail ==
    (hparams.timesteps <= 0 /\ pc # "new") =>
        /\ entry = "__init__"
        /\ pc = "raised"

(***************************************************************************)
(* Operations on a constructed instance: training steps and sampling       *)
(***************************************************************************)

\* a constructed instance of either class, any strategy, any training mode
InitOps ==
    /\ \E c \in Classes, T \in 1..MaxT, ty \in Strategies,
          md \in TrainingModes, seed \in 0..MaxSeed :
          Constructed(c, [timesteps |-> T,
                          sampling |-> [type |-> ty, w |-> 0],
                          debug |-> FALSE,
                          loss_type |-> "l1",
                          training |-> [mode |-> md]], "mean", seed)
    /\ Quiet

NextOps ==
    \/ TrainingStep
    \/ PredictStepBegin
    \/ LatentSamplingBegin
    \/ SpecSamplingBegin
    \/ ReverseStep
    \/ LoopExit

SpecOps == InitOps /\ [][NextOps]_vars

\* C14: the schedule is written at construction only: no training step
\* (with its q_sample and extract_x0), no reverse step and no sampling
\* loop changes any of the arrays of the schedule.
C14_ScheduleReadOnly == [][schedule' = schedule]_vars

\* a sampling loop ran all its reverse steps, every index of the schedule
\* was read, and the arrays are those the constructor built
C14_Witness ==
    /\ pc = "done"
    /\ hparams.timesteps = MaxT
    /\ Len(steps) = MaxT
    /\ \A i \in 1..MaxT : steps[i].reads # {}
    /\ schedule = BuildSchedule(cosine_beta_schedule(MaxT))

(***************************************************************************)
(* The forward corruption and its inverse, called on their own             *)
(***************************************************************************)
X0Vals == {0 - Unit, 0, 3333}

NoiseArgVals == {0, 12000}

\* the tensors of batch size B with values of vals
Tensors(vals, B) == [1..B -> vals]

\* a call of q_sample with the schedule of the instance
QSample ==
    /\ pc = "idle"
    /\ \E B \in 1..MaxBatch :
       \E x0 \in Tensors(X0Vals, B),
          t \in Tensors(0..(hparams.timesteps - 1), B),
          na \in {NoNoise} \cup {GivenNoise(n) : n \in Tensors(NoiseArgVals, B)} :
          IF q_sample_raises(na).type = "none"
          THEN /\ fwd' = [x_start |-> x0, t |-> t, noise_given |-> TRUE,
                          noise |-> na.val,
                          x_t |-> q_sample(x0, t,
                                    schedule.sqrt_alphas_cumprod,
                                    schedule.sqrt_one_minus_alphas_cumprod,
                                    na.val),
                          epsilon |-> << >>, x0_back |-> << >>]
               /\ pc' = "sampled"
               /\ err' = err
          ELSE /\ fwd' = [x_start |-> x0, t |-> t, noise_given |-> FALSE,
                          noise |-> << >>, x_t |-> << >>,
                          epsilon |-> << >>, x0_back |-> << >>]
               /\ pc' = "raised"
               /\ err' = q_sample_raises(na)
    /\ entry' = "q_sample"
    /\ UNCHANGED <<modelVars, rng, inner_loop, batch, cond, noise, noise_list,
                   todo, steps, roll_pred, trainVars, other, notes>>

\* a call of extract_x0 on what q_sample returned, with the same t and
\* schedule; epsilon is the noise q_sample was given, or zero
ExtractX0 ==
    /\ pc = "sampled"
    /\ \E eps \in {fwd.noise, zeros_like(fwd.noise)} :
          fwd' = [fwd EXCEPT
                     !.epsilon = eps,
                     !.x0_back = extract_x0(fwd.x_t, eps, fwd.t,
                                   schedule.sqrt_alphas_cumprod,
                                   schedule.sqrt_one_minus_alphas_cumprod)]
    /\ pc' = "extracted"
    /\ entry' = "extract_x0"
    /\ UNCHANGED <<modelVars, rng, inner_loop, batch, cond, noise, noise_list,
                   todo, steps, roll_pred, err, trainVars, other, notes>>

InitForward ==
    /\ \E c \in Classes, T \in 1..MaxT, seed \in 0..MaxSeed :
          Constructed(c, [timesteps |-> T,
                          sampling |-> [type |-> "ddpm_x0", w |-> 0],
                          debug |-> FALSE,
                          loss_type |-> "l1",
                          training |-> [mode |-> "x_0"]], "mean", seed)
    /\ Quiet

NextForward ==
    \/ QSample
    \/ ExtractX0

SpecForward == InitForward /\ [][NextForward]_vars

\* C15: extract_x0 of what q_sample made of x0, t and noise n, called with
\* epsilon = n and the same t and schedule, gives x0 back: exactly where
\* the products are exact, and within the rounding of one product, divided
\* by sqrt_alphas_cumprod[t], elsewhere.
C15_RoundTrip ==
    (pc = "extracted" /\ fwd.epsilon = fwd.noise) =>
        /\ Len(fwd.x0_back) = Len(fwd.x_start)
        /\ \A k \in 1..Len(fwd.x_start) :
             LET a == At(schedule.sqrt_alphas_cumprod, fwd.t[k])
                 d == Abs(fwd.x0_back[k] - fwd.x_start[k])
             IN  /\ d * a <= Unit + a
                 /\ fwd.x_start[k] \in {0 - Unit, 0} => d = 0

\* a round trip of a batch of two with different timesteps, a value whose
\* product rounds, and noise that is not zero
C15_Witness ==
    /\ pc = "extracted"
    /\ fwd.epsilon = fwd.noise
    /\ hparams.timesteps = MaxT
    /\ Len(fwd.x_start) = 2
    /\ fwd.t[1] # fwd.t[2]
    /\ fwd.x_start[1] = 3333
    /\ fwd.noise[1] = 12000
    /\ fwd.x_t # fwd.x_start

\* C16: q_sample called without noise draws standard-normal noise of the
\* shape of x0 and returns a noisy sample of that shape; it does not fail.
C16_MissingNoiseIsDrawn ==
    (entry = "q_sample" /\ ~fwd.noise_given) =>
        /\ err = NoError
        /\ Len(fwd.noise) = Len(fwd.x_start)
        /\ Len(fwd.x_t) = Len(fwd.x_start)

\* C17: q_sample gives, for each batch element b,
\* sqrt_alphas_cumprod[t[b]] * x0[b]
\*   + sqrt_one_minus_alphas_cumprod[t[b]] * noise[b]
\* with the coefficients of that element's own timestep, in a tensor of the
\* shape of x0; zero x0 with zero noise gives zero for every t.
C17_PerElementCorruption ==
    (entry = "q_sample" /\ pc = "sampled") =>
        /\ Len(fwd.x_t) = Len(fwd.x_start)
        /\ \A b \in 1..Len(fwd.x_start) :
               fwd.x_t[b] =
                   Mul(At(schedule.sqrt_alphas_cumprod, fwd.t[b]),
                       fwd.x_start[b])
                   + Mul(At(schedule.sqrt_one_minus_alphas_cumprod, fwd.t[b]),
                         fwd.noise[b])
        /\ (fwd.x_start = zeros_like(fwd.x_start)
               /\ fwd.noise = zeros_like(fwd.noise))
              => fwd.x_t = zeros_like(fwd.x_start)

\* a batch of two with different timesteps and the same x0 and noise:
\* the two elements come out different
C17_Witness ==
    /\ entry = "q_sample"
    /\ pc = "sampled"
    /\ Len(fwd.x_start) = 2
    /\ fwd.t[1] # fwd.t[2]
    /\ fwd.x_start[1] = fwd.x_start[2]
    /\ fwd.noise[1] = fwd.noise[2]
    /\ fwd.x_t[1] # fwd.x_t[2]

\* the timestep vector of every network call of the reverse steps made so
\* far is the step's t_index once per batch element, and the step's
\* t_index and schedule reads are in [0, T-1]
LoopTimesteps ==
    \A i \in 1..Len(steps) :
        /\ steps[i].t_index \in 0..(hparams.timesteps - 1)
        /\ steps[i].reads \subseteq 0..(hparams.timesteps - 1)
        /\ steps[i].calls # << >>
        /\ \A c \in 1..Len(steps[i].calls) :
               /\ Len(steps[i].calls[c].t) = Len(batch.frame)
               /\ \A k \in 1..Len(batch.frame) :
                      steps[i].calls[c].t[k] = steps[i].t_index

\* the timestep vector of the last forward corruption has one entry per
\* batch element, each in [0, T-1]
ForwardTimesteps ==
    /\ Len(fwd.t) = Len(fwd.x_start)
    /\ \A k \in 1..Len(fwd.t) : fwd.t[k] \in 0..(hparams.timesteps - 1)

\* C18: every timestep handed to the network or used as an index of the
\* schedule is an integer of [0, T-1]: one per batch element in training,
\* the iteration's t_index repeated over the batch in sampling.
C18_TimestepsInRange == LoopTimesteps /\ ForwardTimesteps

\* C19: in the fixed-horizon sampling of SpecRollDiffusion the roll is
\* corrupted to a start timestep t_start < T, no lookup of the schedule is
\* out of range, and the reverse steps made are those of t_start down to 0,
\* each once, in decreasing order.
C19_FixedHorizonBelowT ==
    (cls = "SpecRollDiffusion" /\ entry = "test_step") =>
        /\ fwd.t # << >>
        /\ \A k \in 1..Len(fwd.t) :
               fwd.t[k] \in 0..(hparams.timesteps - 1)
        /\ err = NoError
        /\ \A i \in 1..Len(steps) : steps[i].t_index = fwd.t[1] - (i - 1)
        /\ pc = "done" => Len(steps) = fwd.t[1] + 1

(***************************************************************************)
(* Two sampling runs on one instance.  The second run is a predict_step    *)
(* call whose locals are the fields of other; self.inner_loop, the         *)
(* schedule and the generator of torch are those of the first run.         *)
(***************************************************************************)
\* predict_step of the second run up to its loop
OtherBegin ==
    /\ pc \in {"idle", "loop", "done"}
    /\ other.pc = "idle"
    /\ \E b \in Batches :
          other' = [pc         |-> "loop",
                    noise      |-> b.noise,
                    noise_list |-> <<Entry(tensor(b.noise),
                                          hparams.timesteps)>>,
                    todo       |-> ReversedRange(0, hparams.timesteps),
                    cond       |-> b.cond,
                    steps      |-> << >>]
    /\ inner_loop' = 0
    /\ UNCHANGED <<modelVars, rng, pc, entry, batch, cond, noise, noise_list,
                   todo, steps, roll_pred, err, trainVars, fwd, notes>>

\* one iteration of the loop of the second run
OtherStep ==
    /\ other.pc = "loop"
    /\ other.todo # << >>
    /\ \E nx \in {LoopIteration(reverse_diffusion_name, Self, other.cond,
                                [noise |-> other.noise,
                                 noise_list |-> other.noise_list,
                                 rng |-> rng, n |-> inner_loop],
                                Head(other.todo))} :
           /\ other' = [pc         |-> "loop",
                        noise      |-> nx.noise,
                        noise_list |-> nx.noise_list,
                        todo       |-> Tail(other.todo),
                        cond       |-> other.cond,
                        steps      |-> Append(other.steps, nx.call)]
           /\ rng' = nx.rng
           /\ inner_loop' = nx.n
           /\ schedule' = nx.sched
    /\ UNCHANGED <<cls, hparams, reverse_diffusion_name, net, pc, entry,
                   batch, cond, noise, noise_list, todo, steps, roll_pred,
                   err, trainVars, fwd, notes>>

\* the loop of the second run is exhausted
OtherExit ==
    /\ other.pc = "loop"
    /\ other.todo = << >>
    /\ other' = [other EXCEPT !.pc = "done"]
    /\ UNCHANGED <<modelVars, runVars, trainVars, fwd, notes>>

TwoRunsStrategies == {"ddpm_x0", "ddim_x0"}

InitTwoRuns ==
    /\ \E c \in Classes, T \in 1..MaxT, ty \in TwoRunsStrategies,
          seed \in 0..MaxSeed :
          Constructed(c, [timesteps |-> T,
                          sampling |-> [type |-> ty, w |-> 0],
                          debug |-> FALSE,
                          loss_type |-> "l1",
                          training |-> [mode |-> "x_0"]], "mean", seed)
    /\ Quiet

NextTwoRuns ==
    \/ PredictStepBegin
    \/ LatentSamplingBegin
    \/ ReverseStep
    \/ LoopExit
    \/ OtherBegin
    \/ OtherStep
    \/ OtherExit

SpecTwoRuns == InitTwoRuns /\ [][NextTwoRuns]_vars

\* C20: two sampling runs on one instance share nothing they write: while
\* their steps interleave, the progress counter self.inner_loop of a run
\* is the number of steps that run has made since it reset the counter,
\* as it is when the run is alone.
C20_RunsDoNotInterfere ==
    /\ pc \in {"loop", "done"} => inner_loop = Len(steps)
    /\ other.pc \in {"loop", "done"} => inner_loop = Len(other.steps)

(***************************************************************************)
(* Properties of the network calls of the reverse steps                    *)
(***************************************************************************)
GuidanceVariants == {"cfdg_ddpm_x0", "inpainting_ddpm_x0", "cfdg_ddim_x0"}

\* C23: a reverse step calls the network once, or, for the guidance
\* variants, twice: once with the condition and once with a zero condition
\* of the same shape, both with the state and the timestep vector of the
\* step.
C23_NetworkCallsPerStep ==
    \A i \in 1..Len(steps) :
        LET c == steps[i].calls
        IN  IF reverse_diffusion_name \in GuidanceVariants
            THEN /\ Len(c) = 2
                 /\ c[1].cond = steps[i].cond
                 /\ c[2].cond = zeros_like(steps[i].cond)
                 /\ c[1].x = steps[i].x
                 /\ c[2].x = steps[i].x
                 /\ c[1].t = c[2].t
            ELSE Len(c) = 1

\* the calls of a recorded guidance step made with the condition and with
\* the zero condition: the last two calls of the step
CondCall(s) == s.calls[Len(s.calls) - 1]

UncondCall(s) == s.calls[Len(s.calls)]

\* the second output of the network at a recorded call
SideOf(c) == Forward(net, c.x, c.cond, c.t, c.flags).side

\* C24: a step of a guidance variant returns the side channel of the
\* network call made with the condition, never that of the zero-condition
\* call, and its state is the update computed from
\* (1 + w) * x0_cond - w * x0_uncond.
C24_GuidedStepReturns ==
    \A i \in 1..Len(steps) :
        reverse_diffusion_name \in GuidanceVariants =>
            LET s     == steps[i]
                sigma == IF reverse_diffusion_name = "cfdg_ddim_x0" THEN 0
                         ELSE SigmaAt(schedule, s.t_index)
            IN  /\ CondCall(s).cond = s.cond
                /\ UncondCall(s).cond = zeros_like(s.cond)
                /\ s.side = SideOf(CondCall(s))
                /\ s.out = X0Update(schedule, s.x,
                                    X0Estimate(reverse_diffusion_name, s),
                                    s.t_index, sigma, s.g).mean

\* a guided step with w # 0 whose two calls differ in both outputs
C24_Witness ==
    /\ reverse_diffusion_name = "cfdg_ddpm_x0"
    /\ hparams.sampling.w # 0
    /\ Len(steps) >= 2
    /\ SideOf(CondCall(steps[1])) # SideOf(UncondCall(steps[1]))
    /\ PredOf(CondCall(steps[1])) # PredOf(UncondCall(steps[1]))
    /\ steps[1].side = steps[1].cond
    /\ steps[1].out # steps[1].x

\* the conditions of the shape of x a step can be given
ConditionsLike(x) ==
    {Pattern(CondVals, d, Len(x)) : d \in 0..1} \cup {zeros_like(x)}

\* C25: the only network call of a generation_ddpm_x0 step receives a zero
\* tensor of the shape of the condition with the sampling flag set, and the
\* step returns the same state for every condition of that shape, the
\* state, t_index, network and generator state being the same.
C25_GenerationIgnoresCondition ==
    \A i \in 1..Len(steps) :
        reverse_diffusion_name = "generation_ddpm_x0" =>
            LET s == steps[i]
            IN  /\ Len(s.calls) = 1
                /\ s.calls[1].cond = zeros_like(s.cond)
                /\ s.calls[1].flags.sampling
                /\ \A c \in ConditionsLike(s.x) :
                      reverse_diffusion(reverse_diffusion_name, Self, s.x, c,
                                        s.t_index, s.g).mean = s.out

\* a generation step with a condition that is not zero and a network whose
\* prediction follows its condition: ddpm_x0 would return another state
C25_Witness ==
    /\ reverse_diffusion_name = "generation_ddpm_x0"
    /\ net = "cond"
    /\ Len(steps) >= 2
    /\ steps[1].cond # zeros_like(steps[1].cond)
    /\ steps[1].draws = 1
    /\ ddpm_x0(Self, steps[1].x, steps[1].cond, steps[1].t_index,
               steps[1].g).mean # steps[1].out

(***************************************************************************)
(* Properties of the random stream of the reverse steps                    *)
(***************************************************************************)
DeterministicVariants == {"ddim", "ddim_x0", "cfdg_ddim_x0"}

RECURSIVE Replay(_, _, _, _, _)
\* the trace entries of the loop run again from state x over the indices
\* of todo, with the generator at g
Replay(type, x, c, indices, g) ==
    IF indices = << >>
    THEN << >>
    ELSE LET r == reverse_diffusion(type, Self, x, c, Head(indices), g)
         IN  <<Entry(numpy(r.mean), Head(indices))>>
             \o Replay(type, r.mean, c, Tail(indices), Advance(g, r.draws))

\* C26: a run of ddim, ddim_x0 or cfdg_ddim_x0 does not depend on the
\* random stream: run again from the same initial state with the same
\* condition, schedule and network, at any state of the generator, it
\* leaves the same trace, entry by entry.
C26_DeterministicRuns ==
    (pc = "done" /\ reverse_diffusion_name \in DeterministicVariants) =>
        \A g \in Generators :
            <<noise_list[1]>>
            \o Replay(reverse_diffusion_name, steps[1].x, cond,
                      ReversedRange(0, hparams.timesteps), g) = noise_list

\* a full ddim_x0 run of MaxT steps that took draws, where the draw at the
\* first step differs from generator to generator
C26_Witness ==
    /\ pc = "done"
    /\ reverse_diffusion_name = "ddim_x0"
    /\ Len(steps) = MaxT
    /\ rng.pos >= MaxT - 1
    /\ steps[1].draws = 1
    /\ \E g \in Generators :
          randn_like(steps[1].x, g) # randn_like(steps[1].x, steps[1].g)

\* C27: a reverse step of any variant but ddim takes one draw from the
\* random stream when t_index > 0 and none when t_index = 0, ddim_x0 and
\* cfdg_ddim_x0 included; a step of ddim takes none.  A full run of T steps
\* so advances the stream by T - 1, or by 0 for ddim.
C27_DrawsPerStep ==
    /\ \A i \in 1..Len(steps) :
          steps[i].draws = IF reverse_diffusion_name = "ddim"
                              \/ steps[i].t_index = 0
                           THEN 0 ELSE 1
    /\ pc = "done" =>
          rng.pos - steps[1].g.pos =
              IF reverse_diffusion_name = "ddim" THEN 0
              ELSE hparams.timesteps - 1

\* a full cfdg_ddim_x0 run of MaxT steps: the stream advanced by MaxT - 1
\* although every draw was multiplied by sigma = 0
C27_Witness ==
    /\ pc = "done"
    /\ reverse_diffusion_name = "cfdg_ddim_x0"
    /\ hparams.timesteps = MaxT
    /\ Len(steps) = MaxT
    /\ rng.pos = steps[1].g.pos + MaxT - 1
    /\ steps[MaxT].draws = 0

StepPrediction ==
    Forward(net, fwd.x_t,
            IF hparams.debug /\ hparams.training.mode = "epsilon"
            THEN fwd.x_start ELSE batch.first.cond,
            fwd.t, NoFlags).pred

\* the loss the mode asks for: the label and what it is compared with
ModeLoss ==
    LET mode == hparams.training.mode
        label == IF mode = "epsilon" THEN fwd.noise ELSE fwd.x_start
        compared ==
            IF mode = "ex_0"
            THEN extract_x0(fwd.x_t, StepPrediction, fwd.t,
                            schedule.sqrt_alphas_cumprod,
                            schedule.sqrt_one_minus_alphas_cumprod)
            ELSE StepPrediction
    IN  p_losses(label, compared, hparams.loss_type).loss

\* C22: a training step in mode 'epsilon' compares the injected noise with
\* the network prediction, in mode 'x_0' the clean roll with the prediction,
\* in mode 'ex_0' the clean roll with extract_x0(x_t, prediction, t); in
\* every mode x_t is q_sample(x0, t, noise) with that same noise and the
\* network is called with (x_t, condition, t).
C22_LossTargetByMode ==
    (entry = "step" /\ hparams.training.mode \in TrainingModes) =>
        /\ err = NoError
        /\ fwd.x_t = q_sample(fwd.x_start, fwd.t,
                              schedule.sqrt_alphas_cumprod,
                              schedule.sqrt_one_minus_alphas_cumprod,
                              fwd.noise)
        /\ losses # << >>
        /\ losses[1] = <<"diffusion_loss", ModeLoss>>

(***************************************************************************)
(* Notes from the onset and frame grids: extract_notes_wo_velocity.  A     *)
(* grid is a sequence of rows, one per frame, each a sequence over the     *)
(* pitches; the source indexes both from zero.                             *)
(***************************************************************************)

MaxFrames == 3

\* the numbers of pitches of the grids drawn
Widths == {2}

\* the activations drawn for a cell
Activations == {0, Unit}

\* frame_threshold=0.5, the default
frame_threshold == Unit \div 2

\* the onset thresholds drawn: the default 0.5, and 1.0
OnsetThresholds == {Unit \div 2, Unit}

Rules == {"rule1", "rule2"}

Grids(F, P) == [1..F -> [1..P -> Activations]]

\* grid[f, p]
Cell(grid, f, p) == grid[f + 1][p + 1]

\* (grid >= thr).astype(int)
threshold_Inclusive(grid, thr) ==
    [f \in 1..Len(grid) |->
        [p \in 1..Len(grid[f]) |-> IF grid[f][p] >= thr THEN 1 ELSE 0]]

\* (grid > thr).astype(int)
threshold(grid, thr) ==
    [f \in 1..Len(grid) |->
        [p \in 1..Len(grid[f]) |-> IF grid[f][p] > thr THEN 1 ELSE 0]]

\* np.concatenate([onsets[:1, :], onsets[1:, :] - onsets[:-1, :]]) == 1
onset_diff(onsets) ==
    [f \in 1..Len(onsets) |->
        [p \in 1..Len(onsets[f]) |->
            (IF f = 1 THEN onsets[1][p]
                      ELSE onsets[f][p] - onsets[f - 1][p]) = 1]]

\* rule2 keeps onset_diff; rule1 is onset_diff & (frames == 1)
RuleMask(rule, diff, frames) ==
    [f \in 1..Len(diff) |->
        [p \in 1..Len(diff[f]) |->
            IF rule = "rule1" THEN diff[f][p] /\ frames[f][p] = 1
                              ELSE diff[f][p]]]

\* zip(*np.nonzero(mask)): the true cells, row after row
nonzero(mask) ==
    LET P == Len(mask[1])
        cells == [i \in 1..(Len(mask) * P) |->
                     <<(i - 1) \div P, (i - 1) % P>>]
    IN  SelectSeq(cells, LAMBDA c : Cell(mask, c[1], c[2]))

\* the function up to the head of its for loop
extract_notes_wo_velocity(raw_onsets, raw_frames, onset_thr, frame_thr, rule) ==
    LET onsets == threshold(raw_onsets, onset_thr)
        frames == threshold(raw_frames, frame_thr)
        entered == [NoNotes EXCEPT !.rule = rule,
                                   !.raw_onsets = raw_onsets,
                                   !.raw_frames = raw_frames,
                                   !.onset_threshold = onset_thr,
                                   !.onsets = onsets,
                                   !.frames = frames]
    IN  IF rule \notin {"rule1", "rule2"}
        THEN [entered EXCEPT !.pc = "raised", !.type = "NameError"]
        ELSE [entered EXCEPT
                 !.pc = "for",
                 !.todo = nonzero(RuleMask(rule, onset_diff(onsets), frames))]

\* for frame, pitch in zip(frame_locs, pitch_locs), and the return after it
ForStep(n) ==
    IF n.todo = << >>
    THEN [n EXCEPT !.pc = "returned"]
    ELSE [n EXCEPT !.pc = "scan",
                   !.onset = Head(n.todo)[1],
                   !.offset = Head(n.todo)[1],
                   !.pitch = Head(n.todo)[2],
                   !.todo = Tail(n.todo)]

\* the while loop without its break
ScanStep_NoBreak(n) ==
    IF n.offset >= Len(n.onsets)
    THEN [n EXCEPT !.pc = "raised", !.type = "IndexError",
                   !.reads = @ \cup {n.offset}]
    ELSE IF Cell(n.onsets, n.offset, n.pitch) = 1
            \/ Cell(n.frames, n.offset, n.pitch) = 1
         THEN [n EXCEPT !.reads = @ \cup {n.offset},
                        !.offset = n.offset + 1]
         ELSE [n EXCEPT !.reads = @ \cup {n.offset}, !.pc = "close"]

\* one test of the while loop and, where it holds, one pass of its body;
\* a row that is not there raises IndexError
ScanStep(n) ==
    IF n.offset >= Len(n.onsets)
    THEN [n EXCEPT !.pc = "raised", !.type = "IndexError",
                   !.reads = @ \cup {n.offset}]
    ELSE IF Cell(n.onsets, n.offset, n.pitch) = 1
            \/ Cell(n.frames, n.offset, n.pitch) = 1
         THEN [n EXCEPT !.reads = @ \cup {n.offset},
                        !.offset = n.offset + 1,
                        !.pc = IF n.offset + 1 = Len(n.onsets)
                               THEN "close" ELSE "scan"]
         ELSE [n EXCEPT !.reads = @ \cup {n.offset}, !.pc = "close"]

\* if offset > onset: the note is appended
CloseStep(n) ==
    IF n.offset > n.onset
    THEN [n EXCEPT !.pc = "for",
                   !.pitches = Append(@, n.pitch),
                   !.intervals = Append(@, <<n.onset, n.offset>>)]
    ELSE [n EXCEPT !.pc = "for"]

ExtractNotesCall ==
    /\ notes.pc = "none"
    /\ notes.raw_onsets # << >>
    /\ notes' = extract_notes_wo_velocity(notes.raw_onsets, notes.raw_frames,
                                          notes.onset_threshold,
                                          frame_threshold, notes.rule)
    /\ UNCHANGED <<modelVars, runVars, trainVars, fwd, other>>

NotesFor ==
    /\ notes.pc = "for"
    /\ notes' = ForStep(notes)
    /\ UNCHANGED <<modelVars, runVars, trainVars, fwd, other>>

NotesScan ==
    /\ notes.pc = "scan"
    /\ notes' = ScanStep(notes)
    /\ UNCHANGED <<modelVars, runVars, trainVars, fwd, other>>

NotesClose ==
    /\ notes.pc = "close"
    /\ notes' = CloseStep(notes)
    /\ UNCHANGED <<modelVars, runVars, trainVars, fwd, other>>

\* the arguments of the call are drawn: the function reads nothing of the
\* instance
InitNotes ==
    /\ Constructed("SpecRollDiffusion",
                   [timesteps |-> 1,
                    sampling |-> [type |-> "ddpm_x0", w |-> 0],
                    debug |-> FALSE,
                    loss_type |-> "l1",
                    training |-> [mode |-> "x_0"]], "mean", 0)
    /\ NoCall
    /\ \E F \in 1..MaxFrames, P \in Widths, thr \in OnsetThresholds,
          rule \in Rules :
          \E on \in Grids(F, P), fr \in Grids(F, P) :
             notes = [NoNotes EXCEPT !.rule = rule,
                                     !.raw_onsets = on,
                                     !.raw_frames = fr,
                                     !.onset_threshold = thr]

NextNotes ==
    \/ ExtractNotesCall
    \/ NotesFor
    \/ NotesScan
    \/ NotesClose

\* the function is one sequential call: each of its steps is taken
SpecNotes == InitNotes /\ [][NextNotes]_vars /\ WF_vars(NextNotes)

(***************************************************************************)
(* Properties of the extracted notes.                                      *)
(***************************************************************************)

\* the cell of the arguments is above its threshold
OnsetActive(n, f, p) == Cell(n.raw_onsets, f, p) > n.onset_threshold

FrameActive(n, f, p) == Cell(n.raw_frames, f, p) > frame_threshold

FramesOf(n) == 0..(Len(n.raw_onsets) - 1)

PitchesOf(n) == 0..(Len(n.raw_onsets[1]) - 1)

NoOnsetExceeds(n) ==
    \A f \in FramesOf(n), p \in PitchesOf(n) : ~OnsetActive(n, f, p)

\* C21: on a grid in which no onset cell is above onset_threshold, the
\* all-zero grid among them, extract_notes_wo_velocity finds no place to
\* start a note, under rule1 and under rule2 and whatever the frames hold:
\* it never enters the end-of-note scan, and the pitches and the intervals
\* it returns are empty.
C21_NoOnsetNoNotes ==
    (notes.pc # "none" /\ NoOnsetExceeds(notes)) =>
        /\ notes.pc \in {"for", "returned"}
        /\ notes.todo = << >>
        /\ notes.pitches = << >>
        /\ notes.intervals = << >>

\* a returned call on a grid with onset activations, none above the
\* threshold, and every frame cell active
C21_Witness ==
    /\ notes.pc = "returned"
    /\ NoOnsetExceeds(notes)
    /\ \E f \in FramesOf(notes), p \in PitchesOf(notes) :
          Cell(notes.raw_onsets, f, p) > 0
    /\ \A f \in FramesOf(notes), p \in PitchesOf(notes) :
          FrameActive(notes, f, p)
    /\ Len(notes.raw_onsets) = MaxFrames
    /\ notes.pitches = << >>
    /\ notes.intervals = << >>

\* the interval [onset, offset] is a note of pitch p: a rise of the onsets
\* at onset, and offset the first frame after it where the onset and the
\* frame are both inactive, or the number of frames
IsNote(n, p, onset, offset) ==
    LET F == Len(n.raw_onsets)
    IN  /\ 0 <= onset /\ onset < offset /\ offset <= F
        /\ OnsetActive(n, onset, p)
        /\ onset > 0 => ~OnsetActive(n, onset - 1, p)
        /\ n.rule = "rule1" => FrameActive(n, onset, p)
        /\ \A k \in (onset + 1)..(offset - 1) :
              OnsetActive(n, k, p) \/ FrameActive(n, k, p)
        /\ offset < F =>
              ~OnsetActive(n, offset, p) /\ ~FrameActive(n, offset, p)

NotesWellFormed ==
    /\ notes.pc # "raised"
    /\ \A r \in notes.reads : r >= 0 /\ r < Len(notes.raw_onsets)
    /\ notes.pc = "returned" =>
          /\ Len(notes.pitches) = Len(notes.intervals)
          /\ \A i \in 1..Len(notes.intervals) :
                IsNote(notes, notes.pitches[i], notes.intervals[i][1],
                       notes.intervals[i][2])

\* C30: on every grid of F frames extract_notes_wo_velocity returns, with
\* as many pitches as intervals, every interval [onset, offset] having
\* 0 <= onset < offset <= F, onset a frame where the thresholded onset of
\* the pitch rises (under rule1 with the thresholded frame active too), and
\* offset the first frame after onset where the thresholded onset and frame
\* of the pitch are both inactive, or F; the end-of-note scan reads no row
\* at index F or beyond.
C30_NotesWellFormed == []NotesWellFormed /\ <>(notes.pc = "returned")

\* a returned call with a note that ends inside the grid and a note that
\* runs to its end, the scan having held on through a frame without onset
C30_Witness ==
    /\ notes.pc = "returned"
    /\ Len(notes.raw_onsets) = MaxFrames
    /\ \E i \in 1..Len(notes.intervals) :
          notes.intervals[i][2] < MaxFrames
    /\ \E i \in 1..Len(notes.intervals) :
          /\ notes.intervals[i][2] = MaxFrames
          /\ notes.intervals[i][1] > 0
          /\ ~OnsetActive(notes, MaxFrames - 1, notes.pitches[i])
    /\ MaxFrames - 1 \in notes.reads

====
